---- MODULE Spec2Model ----
(***************************************************************************)
(* PID control simulator (src/main.cpp): a PID controller, a ball          *)
(* integrated by semi-implicit Euler with reflective boundaries, and the   *)
(* fixed-timestep loop of App::run with its event handlers.                *)
(*                                                                         *)
(* Number representation.                                                  *)
(*  - The accumulator of App::run decides how often the drain loop runs,   *)
(*    so it is held as the exact IEEE-754 binary64 value: a natural        *)
(*    number of units of 2^-62 second, in three limbs of 21 bits, with    *)
(*    every operation rounded to 53 significant bits, ties to even.       *)
(*  - Physical quantities (y, velocity, setpoint, integral, prev_error,   *)
(*    force) are held in fixed point, SCALE units per 1.0; gains are held *)
(*    in units of 1/GSCALE.  Every product and quotient is rounded to the *)
(*    nearest unit.  A dt is the pair <<numerator, denominator>>.         *)
(***************************************************************************)
EXTENDS Integers, Sequences, FiniteSets, TLC

----------------------------------------------------------------------------
(* Program constants *)

WINDOW_HEIGHT == 800
BALL_SIZE == 30
GRAVITY == 98
INTEGRAL_LIMIT == 1000
KP_INIT == 80
KI_INIT == 0
KD_INIT == 0
KEY_STEP == 5
FIXED_TIMESTEP == <<1, 60>>

(* Fixed-point resolution of the physical quantities and of the gains *)
SCALE == 100
GSCALE == 10

----------------------------------------------------------------------------
(* Bounds of the model *)

MaxFrames == 2
MaxEvents == 2
MaxKeys == 18
MaxCalls == 2
MaxUpdates == 4

----------------------------------------------------------------------------
(* binary64 arithmetic on non-negative values below 1.0, in units of 2^-62: *)
(* a value is <<l1, l2, l3>> = l1 + l2 * 2^21 + l3 * 2^42, l1, l2 < 2^21    *)

LIMB == 2097152
LIMB_BITS == 21
FRAC_BITS == 62
MANT_BITS == 53

RECURSIVE Pow2(_)
Pow2(k) == IF k = 0 THEN 1 ELSE 2 * Pow2(k - 1)

BigZero == <<0, 0, 0>>

(* bits needed to write the limb value v, 0 for v = 0 *)
LimbBits(v) == IF v = 0 THEN 0
               ELSE CHOOSE b \in 1..LIMB_BITS : Pow2(b - 1) <= v /\ v < Pow2(b)

BitLen(a) == IF a[3] # 0 THEN 2 * LIMB_BITS + LimbBits(a[3])
             ELSE IF a[2] # 0 THEN LIMB_BITS + LimbBits(a[2])
             ELSE LimbBits(a[1])

BigAdd(a, b) ==
    LET s1 == a[1] + b[1]
        s2 == a[2] + b[2] + s1 \div LIMB
        s3 == a[3] + b[3] + s2 \div LIMB
    IN  <<s1 % LIMB, s2 % LIMB, s3>>

(* a - b for a >= b *)
BigSub(a, b) ==
    LET d1 == a[1] - b[1]
        w1 == IF d1 < 0 THEN 1 ELSE 0
        d2 == a[2] - b[2] - w1
        w2 == IF d2 < 0 THEN 1 ELSE 0
        d3 == a[3] - b[3] - w2
    IN  <<d1 + w1 * LIMB, d2 + w2 * LIMB, d3>>

BigGE(a, b) == \/ a[3] > b[3]
               \/ a[3] = b[3] /\ a[2] > b[2]
               \/ a[3] = b[3] /\ a[2] = b[2] /\ a[1] >= b[1]
BigLT(a, b) == ~BigGE(a, b)

(* Round the exact value q + rn/rd (0 <= rn < rd) to 53 significant bits,   *)
(* ties to even.  The bits dropped lie in the lowest limb: q < 2^62.        *)
RoundBits(q, rn, rd) ==
    LET L    == BitLen(q)
        k    == IF L > MANT_BITS THEN L - MANT_BITS ELSE 0
        low  == q[1] % Pow2(k)
        odd  == (q[1] \div Pow2(k)) % 2 = 1
        cmp  == IF k = 0
                THEN (IF 2 * rn > rd THEN 1 ELSE IF 2 * rn < rd THEN -1 ELSE 0)
                ELSE IF low > Pow2(k - 1) THEN 1
                ELSE IF low < Pow2(k - 1) THEN -1
                ELSE IF rn > 0 THEN 1 ELSE 0
        up   == cmp = 1 \/ (cmp = 0 /\ odd)
        base == BigSub(q, <<low, 0, 0>>)
    IN  IF up THEN BigAdd(base, <<Pow2(k), 0, 0>>) ELSE base

(* the same, with the exact value computed once *)
RoundToDouble(q, rn, rd) == CHOOSE r \in {RoundBits(v, rn, rd) : v \in {q}} : TRUE

(* floor(n * 2^62 / d) and the remainder, for naturals n < 1000, d <= 1000 *)
BigDivSmall(n, d) ==
    LET c3 == n * Pow2(FRAC_BITS - 2 * LIMB_BITS)
        c2 == (c3 % d) * LIMB
        c1 == (c2 % d) * LIMB
    IN  [quot |-> <<c1 \div d, c2 \div d, c3 \div d>>, rem |-> c1 % d]

(* the double n / d *)
DoubleDiv(n, d) ==
    CHOOSE r \in {RoundBits(qr.quot, qr.rem, d) : qr \in {BigDivSmall(n, d)}} : TRUE

DoubleAdd(a, b) == RoundToDouble(BigAdd(a, b), 0, 1)
DoubleSub(a, b) == RoundToDouble(BigSub(a, b), 0, 1)

(* constexpr double FIXED_TIMESTEP = 1.0 / 60.0, as the double it is *)
FIXED_TIMESTEP_D == DoubleDiv(FIXED_TIMESTEP[1], FIXED_TIMESTEP[2])

----------------------------------------------------------------------------
(* Fixed-point arithmetic of the physical quantities *)

(* a / b rounded to the nearest integer, for b = 1 or b > 0 even *)
RoundDiv(a, b) == (a + b \div 2) \div b

(* x * dt and x / dt for a dt = <<numerator, denominator>>, the          *)
(* denominator positive; x / dt for a numerator other than 0             *)
MulDt(x, dt) == RoundDiv(x * dt[1], dt[2])
DivDt(x, dt) == IF dt[1] < 0 THEN RoundDiv((-x) * dt[2], -dt[1])
                ELSE RoundDiv(x * dt[2], dt[1])

(* stands for the doubles that are not finite: inf, -inf and NaN *)
NonFinite == 2147483647

(* gain * x, the gain in units of 1/GSCALE *)
GainMul(g, x) == RoundDiv(g * x, GSCALE)

(* std::clamp and std::max *)
Clamp(v, lo, hi) == IF v < lo THEN lo ELSE IF hi < v THEN hi ELSE v
Max(a, b) == IF a < b THEN b ELSE a

----------------------------------------------------------------------------
(* PID_Controller *)

(* CalcIntegral without the std::clamp of line 24 *)
CalcIntegralUnclamped(integ, sp, pv, dt) == integ + MulDt(sp - pv, dt)

(* integral after a calculate call: accumulate, then clamp *)
CalcIntegral(integ, sp, pv, dt) ==
    Clamp(integ + MulDt(sp - pv, dt),
          -INTEGRAL_LIMIT * SCALE, INTEGRAL_LIMIT * SCALE)

CalcDerivative(prev, sp, pv, dt) == DivDt((sp - pv) - prev, dt)

(* CalcOutput with the integral term taken from the integral as it was    *)
(* before the call                                                        *)
CalcOutputStaleIntegral(kp, ki, kd, integ, prev, sp, pv, dt) ==
    IF dt[1] = 0 THEN NonFinite
    ELSE GainMul(kp, sp - pv)
         + GainMul(ki, integ)
         + GainMul(kd, CalcDerivative(prev, sp, pv, dt))

(* value returned by calculate. With dt = 0 the derivative is x / 0.0,   *)
(* inf, -inf or NaN, and so is the sum for every Kd (0 * inf is NaN)     *)
CalcOutput(kp, ki, kd, integ, prev, sp, pv, dt) ==
    IF dt[1] = 0 THEN NonFinite
    ELSE GainMul(kp, sp - pv)
         + GainMul(ki, CalcIntegral(integ, sp, pv, dt))
         + GainMul(kd, CalcDerivative(prev, sp, pv, dt))

----------------------------------------------------------------------------
(* Ball *)

Y_MAX == (WINDOW_HEIGHT - BALL_SIZE) * SCALE

(* Bounce that damps the velocity and keeps its sign *)
BounceNoFlip(v) == RoundDiv(3 * v, 10)

(* velocity *= -0.3 *)
Bounce(v) == RoundDiv(-3 * v, 10)

(* velocity and raw position after the two Euler updates *)
EulerVelocity(v, f, dt) == v + MulDt(f - GRAVITY * SCALE, dt)
EulerY(py, v, f, dt) == py + MulDt(EulerVelocity(v, f, dt), dt)

(* BoundY with the upper branch lost *)
BoundYLowerOnly(ry) == IF ry < 0 THEN 0 ELSE ry

(* apply_boundary_constraints on a raw position ry and velocity v *)
BoundY(ry) == IF ry < 0 THEN 0 ELSE IF ry > Y_MAX THEN Y_MAX ELSE ry

(* BoundVelocity with a boundary at WINDOW_HEIGHT - BALL_SIZE that stops  *)
(* the body instead of reflecting it                                      *)
BoundVelocityUpperStops(ry, v) == IF ry < 0 THEN Bounce(v)
                                  ELSE IF ry > Y_MAX THEN 0 ELSE v

BoundVelocity(ry, v) == IF ry < 0 THEN Bounce(v)
                        ELSE IF ry > Y_MAX THEN Bounce(v) ELSE v

(* Ball::update as a function of the body state *)
UpdateY(py, v, f, dt) == BoundY(EulerY(py, v, f, dt))

(* UpdateVelocity with the bounce taken from the velocity as it was       *)
(* before the force was applied                                           *)
UpdateVelocityOldBounce(py, v, f, dt) ==
    IF BoundY(EulerY(py, v, f, dt)) = EulerY(py, v, f, dt)
    THEN EulerVelocity(v, f, dt)
    ELSE Bounce(v)

UpdateVelocity(py, v, f, dt) ==
    BoundVelocity(EulerY(py, v, f, dt), EulerVelocity(v, f, dt))

(* static_cast<int>(y): truncation towards zero *)
ToInt(py) == IF py >= 0 THEN py \div SCALE ELSE -((-py) \div SCALE)

----------------------------------------------------------------------------
(* Uint32 tick counts *)

(* a tick count modulo 2^32 as <<high, low>> 16-bit halves *)
U16 == 65536
Ticks(ms) == <<(ms \div U16) % U16, ms % U16>>
TicksValue(t) == t[1] * U16 + t[2]

(* SDL_GetTicks() d milliseconds after it returned t: the counter wraps *)
U32Add(t, d) == <<(t[1] + d[1] + (t[2] + d[2]) \div U16) % U16,
                  (t[2] + d[2]) % U16>>

(* a difference that is 0 when the counter has wrapped in between *)
U32SubSaturating(a, b) ==
    IF a[1] < b[1] \/ (a[1] = b[1] /\ a[2] < b[2]) THEN <<0, 0>>
    ELSE <<(a[1] - b[1] - (IF a[2] < b[2] THEN 1 ELSE 0)) % U16,
           (a[2] - b[2]) % U16>>

(* current_time - last_time on Uint32: the difference modulo 2^32 *)
U32Sub(a, b) == <<(a[1] - b[1] - (IF a[2] < b[2] THEN 1 ELSE 0)) % U16,
                  (a[2] - b[2]) % U16>>

----------------------------------------------------------------------------
(* State *)

VARIABLES
    Kp, Ki, Kd,         \* PID_Controller gains, units of 1/GSCALE
    integral,           \* PID_Controller::integral
    prev_error,         \* PID_Controller::prev_error
    y, velocity,        \* Ball::y, Ball::velocity
    rect_y,             \* Ball::rect.y
    setpoint,           \* App::setpoint
    running,            \* local of App::run
    last_time,          \* local of App::run, Uint32 milliseconds
    accumulator,        \* local of App::run, binary64 in units of 2^-62
    force,              \* local of App::update_physics
    pc,                 \* position in App::run
    frames,             \* host frames started
    frameEntry,         \* the accumulator the current frame began with and the
                        \* frame delta in ms it computed
    rendered,           \* render() calls completed
    nEvents,            \* events returned by SDL_PollEvent so far
    frameSteps,         \* fixed steps completed in the current frame
    calcs,              \* PID_Controller::calculate calls so far
    updates,            \* Ball::update calls so far
    noInput,            \* no event has been polled so far
    quitFrame,          \* frame in which SDL_QUIT was handled, 0 if none
    afterQuit,          \* events polled after SDL_QUIT was handled
    lastOp,             \* the operation that produced this state
    lastArg,            \* its argument: frame delta in ms, pointer y, or
                        \* the dt of a calculate or update call; else 0
    pre                 \* gains, controller memory, setpoint and body before it

pidVars == <<Kp, Ki, Kd, integral, prev_error>>
ballVars == <<y, velocity, rect_y>>
runVars == <<running, last_time, accumulator, pc>>
histVars == <<frames, frameEntry, rendered, nEvents, frameSteps, noInput, quitFrame,
             afterQuit>>
vars == <<Kp, Ki, Kd, integral, prev_error, y, velocity, rect_y, setpoint,
          running, last_time, accumulator, force, pc, frames, frameEntry, rendered,
          nEvents, frameSteps, calcs, updates, noInput, quitFrame, afterQuit, lastOp,
          lastArg, pre>>

Snapshot == [Kp |-> Kp, Ki |-> Ki, Kd |-> Kd, integral |-> integral,
             prev_error |-> prev_error, setpoint |-> setpoint,
             y |-> y, velocity |-> velocity, accumulator |-> accumulator]

(* Inputs *)
FrameDeltas == {0, 5, 45, 50}
MouseYs == {100, 700}
Keys == {"UP", "DOWN", "LEFT", "RIGHT", "PAGEUP", "PAGEDOWN", "r", "other"}

(* the state after construction, the body at position py with velocity  *)
(* v, the first SDL_GetTicks() returning t                               *)
InitAt(py, v, t) ==
    /\ Kp = KP_INIT * GSCALE
    /\ Ki = KI_INIT * GSCALE
    /\ Kd = KD_INIT * GSCALE
    /\ integral = 0
    /\ prev_error = 0
    /\ y = py
    /\ velocity = v
    /\ rect_y = ToInt(py)
    /\ setpoint = (WINDOW_HEIGHT \div 2) * SCALE
    /\ running = TRUE
    /\ last_time = t
    /\ accumulator = BigZero
    /\ force = 0
    /\ pc = "frame"
    /\ frames = 0
    /\ frameEntry = <<BigZero, 0>>
    /\ rendered = 0
    /\ nEvents = 0
    /\ frameSteps = 0
    /\ calcs = 0
    /\ updates = 0
    /\ noInput = TRUE
    /\ quitFrame = 0
    /\ afterQuit = 0
    /\ lastOp = "init"
    /\ lastArg = 0
    /\ pre = Snapshot

(* Ball's member initializers: y = WINDOW_HEIGHT / 2, velocity = 0 *)
Init == InitAt((WINDOW_HEIGHT \div 2) * SCALE, 0, Ticks(0))

----------------------------------------------------------------------------
(* Member functions as state changes *)

(* PID_Controller::calculate(sp, pv, dt); the return value goes to force *)
calculate(sp, pv, dt) ==
    /\ integral' = CalcIntegral(integral, sp, pv, dt)
    /\ prev_error' = sp - pv
    /\ force' = CalcOutput(Kp, Ki, Kd, integral, prev_error, sp, pv, dt)
    /\ calcs' = calcs + 1

(* reset that clears the integral and forgets prev_error *)
resetIntegralOnly ==
    /\ integral' = 0
    /\ prev_error' = prev_error

(* PID_Controller::reset *)
reset ==
    /\ integral' = 0
    /\ prev_error' = 0

(* Ball::update(f, dt) *)
update(f, dt) ==
    /\ y' = UpdateY(y, velocity, f, dt)
    /\ velocity' = UpdateVelocity(y, velocity, f, dt)
    /\ rect_y' = ToInt(UpdateY(y, velocity, f, dt))
    /\ updates' = updates + 1

(* KeyKp with the std::max of the DOWN case lost *)
KeyKpNoMax(key, kp) == IF key = "UP" THEN kp + KEY_STEP * GSCALE
                       ELSE IF key = "DOWN" THEN kp - KEY_STEP * GSCALE
                       ELSE kp

(* the gains after App::handle_keypress(key) *)
KeyKp(key, kp) == IF key = "UP" THEN kp + KEY_STEP * GSCALE
                  ELSE IF key = "DOWN" THEN Max(0, kp - KEY_STEP * GSCALE)
                  ELSE kp
KeyKi(key, ki) == IF key = "LEFT" THEN Max(0, ki - 1)
                  ELSE IF key = "RIGHT" THEN ki + 1
                  ELSE ki

(* KeyKd with the break of the RIGHT case lost: RIGHT falls through into  *)
(* the PAGEUP case                                                        *)
KeyKdFallThrough(key, kd) ==
    IF key \in {"RIGHT", "PAGEUP"} THEN kd + KEY_STEP * GSCALE
    ELSE IF key = "PAGEDOWN" THEN Max(0, kd - KEY_STEP * GSCALE)
    ELSE kd

KeyKd(key, kd) == IF key = "PAGEUP" THEN kd + KEY_STEP * GSCALE
                  ELSE IF key = "PAGEDOWN" THEN Max(0, kd - KEY_STEP * GSCALE)
                  ELSE kd

(* App::handle_keypress(key) *)
handle_keypress(key) ==
    /\ Kp' = KeyKp(key, Kp)
    /\ Ki' = KeyKi(key, Ki)
    /\ Kd' = KeyKd(key, Kd)
    /\ IF key = "r" THEN reset ELSE UNCHANGED <<integral, prev_error>>

----------------------------------------------------------------------------
(* App::run, one action per step of the loop *)

(* the condition of the drain loop: accumulator >= FIXED_TIMESTEP *)
DrainGuard(acc) == BigGE(acc, FIXED_TIMESTEP_D)

(* the pc after handle_events returns *)
AfterEvents == "drain"

(* a click position taken for the ball's upper edge, not the target line *)
ClickSetpointEdge(my) == (my - BALL_SIZE \div 2) * SCALE

(* setpoint = e.button.y *)
ClickSetpoint(my) == my * SCALE

(* SDL_QUIT leaving run at once, without the rest of the frame *)
AfterQuitBreak(p) == "done"

(* the pc after SDL_QUIT is handled: still polling events *)
AfterQuit(p) == p

(* events polled inside the drain loop as well *)
PollAtAnyTime == {"events", "drain"}

(* events are polled in handle_events only *)
PollAt == {"events"}

(* an if in place of the while of the drain loop: one step, then render *)
AfterStepOnce == "render"

(* the pc after one pass of the drain loop's body: back to its condition *)
AfterStep == "drain"

(* the frame delta in milliseconds and                                  *)
(* frame_time = (current_time - last_time) / 1000.0                     *)
FrameDelta(current_time, last) == TicksValue(U32Sub(current_time, last))
FrameTime(current_time, last) ==
    DoubleDiv(FrameDelta(current_time, last), 1000)

(* measured value handed to calculate: ball.y + BALL_SIZE/2 *)
MeasuredValue(py) == py + (BALL_SIZE \div 2) * SCALE

(* while (running): read the clock, add the frame time to the accumulator *)
FrameStart(d) ==
    /\ pc = "frame"
    /\ running
    /\ frames < MaxFrames
    /\ last_time' = U32Add(last_time, Ticks(d))
    /\ accumulator' = DoubleAdd(accumulator,
                                FrameTime(U32Add(last_time, Ticks(d)),
                                          last_time))
    /\ pc' = "events"
    /\ frames' = frames + 1
    /\ frameEntry' = <<accumulator,
                        FrameDelta(U32Add(last_time, Ticks(d)), last_time)>>
    /\ frameSteps' = 0
    /\ lastOp' = "frame"
    /\ lastArg' = d
    /\ pre' = Snapshot
    /\ UNCHANGED <<pidVars, ballVars, setpoint, running, force, rendered,
                   nEvents, calcs, updates, noInput, quitFrame, afterQuit>>

(* while (running) is false: run returns *)
RunReturn ==
    /\ pc = "frame"
    /\ ~running
    /\ pc' = "done"
    /\ lastOp' = "return"
    /\ lastArg' = 0
    /\ pre' = Snapshot
    /\ UNCHANGED <<pidVars, ballVars, setpoint, running, last_time,
                   accumulator, force, histVars, calcs, updates>>

(* SDL_PollEvent returned an event *)
Polled ==
    /\ pc \in PollAt
    /\ nEvents < MaxEvents
    /\ nEvents' = nEvents + 1
    /\ noInput' = FALSE
    /\ afterQuit' = IF running THEN afterQuit ELSE afterQuit + 1

(* e.type == SDL_QUIT *)
PollQuit ==
    /\ Polled
    /\ running' = FALSE
    /\ pc' = AfterQuit(pc)
    /\ quitFrame' = frames
    /\ lastOp' = "quit"
    /\ lastArg' = 0
    /\ pre' = Snapshot
    /\ UNCHANGED <<pidVars, ballVars, setpoint, last_time, accumulator,
                   force, frames, frameEntry, rendered, frameSteps, calcs, updates>>

(* e.type == SDL_MOUSEBUTTONDOWN at e.button.y = my *)
PollMouseDown(my) ==
    /\ Polled
    /\ setpoint' = ClickSetpoint(my)
    /\ lastOp' = "mouse"
    /\ lastArg' = my
    /\ pre' = Snapshot
    /\ UNCHANGED <<pidVars, ballVars, runVars, force, frames, frameEntry, rendered,
                   frameSteps, calcs, updates, quitFrame>>

(* e.type == SDL_KEYDOWN with e.key.keysym.sym = key *)
PollKeyDown(key) ==
    /\ Polled
    /\ handle_keypress(key)
    /\ lastOp' = key
    /\ lastArg' = 0
    /\ pre' = Snapshot
    /\ UNCHANGED <<ballVars, setpoint, runVars, force, frames, frameEntry, rendered,
                   frameSteps, calcs, updates, quitFrame>>

(* an event of any other type: no branch of handle_events matches *)
PollIgnored ==
    /\ Polled
    /\ lastOp' = "ignored"
    /\ lastArg' = 0
    /\ pre' = Snapshot
    /\ UNCHANGED <<pidVars, ballVars, setpoint, runVars, force, frames, frameEntry,
                   rendered, frameSteps, calcs, updates, quitFrame>>

(* SDL_PollEvent returned 0: handle_events returns *)
PollEmpty ==
    /\ pc = "events"
    /\ pc' = AfterEvents
    /\ lastOp' = "polled"
    /\ lastArg' = 0
    /\ pre' = Snapshot
    /\ UNCHANGED <<pidVars, ballVars, setpoint, running, last_time,
                   accumulator, force, histVars, calcs, updates>>

(* update_physics, first half: force = pid.calculate(setpoint, pv, dt) *)
StepCalculate ==
    /\ pc = "drain"
    /\ DrainGuard(accumulator)
    /\ calculate(setpoint, MeasuredValue(y), FIXED_TIMESTEP)
    /\ pc' = "update"
    /\ lastOp' = "calculate"
    /\ lastArg' = FIXED_TIMESTEP
    /\ pre' = Snapshot
    /\ UNCHANGED <<Kp, Ki, Kd, ballVars, setpoint, running, last_time,
                   accumulator, histVars, updates>>

(* update_physics, second half: ball.update(force, dt); then the loop's *)
(* accumulator -= FIXED_TIMESTEP                                        *)
StepUpdate ==
    /\ pc = "update"
    /\ update(force, FIXED_TIMESTEP)
    /\ accumulator' = DoubleSub(accumulator, FIXED_TIMESTEP_D)
    /\ frameSteps' = frameSteps + 1
    /\ pc' = AfterStep
    /\ lastOp' = "update"
    /\ lastArg' = FIXED_TIMESTEP
    /\ pre' = Snapshot
    /\ UNCHANGED <<pidVars, setpoint, running, last_time, force, frames, frameEntry,
                   rendered, nEvents, calcs, noInput, quitFrame, afterQuit>>

(* the drain loop's condition is false *)
DrainExit ==
    /\ pc = "drain"
    /\ ~DrainGuard(accumulator)
    /\ pc' = "render"
    /\ lastOp' = "drained"
    /\ lastArg' = 0
    /\ pre' = Snapshot
    /\ UNCHANGED <<pidVars, ballVars, setpoint, running, last_time,
                   accumulator, force, histVars, calcs, updates>>

(* render() reads the state and draws; the loop goes back to its test *)
Render ==
    /\ pc = "render"
    /\ pc' = "frame"
    /\ rendered' = rendered + 1
    /\ lastOp' = "render"
    /\ lastArg' = 0
    /\ pre' = Snapshot
    /\ UNCHANGED <<pidVars, ballVars, setpoint, running, last_time,
                   accumulator, force, frames, frameEntry, nEvents, frameSteps, calcs,
                   updates, noInput, quitFrame, afterQuit>>

Next ==
    \/ \E d \in FrameDeltas : FrameStart(d)
    \/ RunReturn
    \/ PollQuit
    \/ \E my \in MouseYs : PollMouseDown(my)
    \/ \E key \in Keys : PollKeyDown(key)
    \/ PollIgnored
    \/ PollEmpty
    \/ StepCalculate
    \/ StepUpdate
    \/ DrainExit
    \/ Render

Spec == Init /\ [][Next]_vars

(* App::run entered 30 ms before the tick counter wraps *)
WrapLead == 30
InitNearWrap ==
    InitAt((WINDOW_HEIGHT \div 2) * SCALE, 0, <<U16 - 1, U16 - WrapLead>>)

SpecWrap == InitNearWrap /\ [][Next]_vars

----------------------------------------------------------------------------
(* The controller on its own: any calculate calls, resets and gain keys *)

Setpoints == {0, 400, 799}
MeasuredValues == {-300, 415, 1100}
Dts == {FIXED_TIMESTEP, <<1, 1>>}

PidCalculate(sp, pv, dt) ==
    /\ calcs < MaxCalls
    /\ calculate(sp * SCALE, pv * SCALE, dt)
    /\ lastOp' = "calculate"
    /\ lastArg' = dt
    /\ pre' = Snapshot
    /\ UNCHANGED <<Kp, Ki, Kd, ballVars, setpoint, runVars, histVars, updates>>

PidReset ==
    /\ reset
    /\ lastOp' = "reset"
    /\ lastArg' = 0
    /\ pre' = Snapshot
    /\ UNCHANGED <<Kp, Ki, Kd, ballVars, setpoint, runVars, force, histVars,
                   calcs, updates>>

PidKeyDown(key) ==
    /\ nEvents < MaxEvents
    /\ nEvents' = nEvents + 1
    /\ handle_keypress(key)
    /\ lastOp' = key
    /\ lastArg' = 0
    /\ pre' = Snapshot
    /\ UNCHANGED <<ballVars, setpoint, runVars, force, frames, frameEntry, rendered,
                   frameSteps, calcs, updates, noInput, quitFrame, afterQuit>>

NextPID ==
    \/ \E sp \in Setpoints, pv \in MeasuredValues, dt \in Dts :
          PidCalculate(sp, pv, dt)
    \/ PidReset
    \/ \E key \in Keys : PidKeyDown(key)

SpecPID == Init /\ [][NextPID]_vars

----------------------------------------------------------------------------
(* The ball on its own: any force, dt = FIXED_TIMESTEP *)

Forces == {-1000000, -1200, 0, 98, 1000000}

BallUpdate(f) ==
    /\ updates < MaxUpdates
    /\ force' = f * SCALE
    /\ update(f * SCALE, FIXED_TIMESTEP)
    /\ lastOp' = "update"
    /\ lastArg' = FIXED_TIMESTEP
    /\ pre' = Snapshot
    /\ UNCHANGED <<pidVars, setpoint, runVars, histVars, calcs>>

NextBall == \E f \in Forces : BallUpdate(f)

SpecBall == Init /\ [][NextBall]_vars

(* The ball started on the boundary at 0 with velocity -5, moving out *)
InitAtBoundary == InitAt(0, -5 * SCALE, Ticks(0))

SpecBounce == InitAtBoundary /\ [][NextBall]_vars

----------------------------------------------------------------------------
(* The key handler on its own: any sequence of key events *)

KeyPress(key) ==
    /\ nEvents < MaxKeys
    /\ nEvents' = nEvents + 1
    /\ handle_keypress(key)
    /\ lastOp' = key
    /\ lastArg' = 0
    /\ pre' = Snapshot
    /\ UNCHANGED <<ballVars, setpoint, runVars, force, frames, frameEntry, rendered,
                   frameSteps, calcs, updates, noInput, quitFrame, afterQuit>>

NextKeys == \E key \in Keys : KeyPress(key)

SpecKeys == Init /\ [][NextKeys]_vars

----------------------------------------------------------------------------
(* The two member functions called with a timestep that is not positive *)

DegenerateDts == {<<0, 1>>, <<-1, 60>>}
DegenerateValues == {415, 1100}
DegenerateForces == {0, 1000}

CalculateDegenerate(pv, dt) ==
    /\ calcs < MaxCalls
    /\ calculate(setpoint, pv * SCALE, dt)
    /\ lastOp' = "calculate"
    /\ lastArg' = dt
    /\ pre' = Snapshot
    /\ UNCHANGED <<Kp, Ki, Kd, ballVars, setpoint, runVars, histVars, updates>>

UpdateDegenerate(f, dt) ==
    /\ updates < MaxUpdates
    /\ force' = f * SCALE
    /\ update(f * SCALE, dt)
    /\ lastOp' = "update"
    /\ lastArg' = dt
    /\ pre' = Snapshot
    /\ UNCHANGED <<pidVars, setpoint, runVars, histVars, calcs>>

NextDegenerate ==
    \/ \E pv \in DegenerateValues, dt \in DegenerateDts :
          CalculateDegenerate(pv, dt)
    \/ \E f \in DegenerateForces, dt \in DegenerateDts :
          UpdateDegenerate(f, dt)

SpecDegenerate == Init /\ [][NextDegenerate]_vars

----------------------------------------------------------------------------
(* Properties *)

(* C1: after every calculate call, however interleaved with reset and     *)
(* gain changes, -1000 <= integral <= 1000.                               *)
C1_IntegralClamped ==
    /\ -INTEGRAL_LIMIT * SCALE <= integral
    /\ integral <= INTEGRAL_LIMIT * SCALE

(* a first calculate call whose error alone exceeds the limit left the    *)
(* integral at the limit                                                  *)
C1_Witness ==
    /\ lastOp = "calculate"
    /\ calcs = 1
    /\ prev_error > INTEGRAL_LIMIT * SCALE
    /\ integral = INTEGRAL_LIMIT * SCALE

(* C2: after every Ball::update with dt = FIXED_TIMESTEP the position is  *)
(* within 0 .. WINDOW_HEIGHT - BALL_SIZE.                                 *)
C2_PositionInBounds == 0 <= y /\ y <= Y_MAX

(* an update that ran into the upper boundary: clamped, velocity reversed *)
C2_Witness ==
    /\ lastOp = "update"
    /\ y = Y_MAX
    /\ pre.y < Y_MAX
    /\ velocity < 0

(* C3: when the drain loop has exited, 0 <= accumulator < FIXED_TIMESTEP, *)
(* up to the start of the next frame; the loop's subtraction is only made *)
(* from an accumulator >= FIXED_TIMESTEP, so it never goes below zero.    *)
C3_ResidualBelowTimestep ==
    /\ pc = "update" => BigGE(accumulator, FIXED_TIMESTEP_D)
    /\ pc \in {"render", "frame", "done"} => BigLT(accumulator, FIXED_TIMESTEP_D)

(* a frame that drained two or more steps and left a non-zero residual *)
C3_Witness ==
    /\ pc = "render"
    /\ frameSteps >= 2
    /\ accumulator # BigZero

(* C4: after any sequence of key events Kp, Ki, Kd >= 0, and a decrease   *)
(* that would make a gain negative leaves it at exactly 0.                *)
C4_GainsNonNegative ==
    /\ Kp >= 0 /\ Ki >= 0 /\ Kd >= 0
    /\ (lastOp = "DOWN" /\ pre.Kp - KEY_STEP * GSCALE < 0) => Kp = 0
    /\ (lastOp = "LEFT" /\ pre.Ki - 1 < 0) => Ki = 0
    /\ (lastOp = "PAGEDOWN" /\ pre.Kd - KEY_STEP * GSCALE < 0) => Kd = 0

(* Kp was brought down from 80 to 0 and DOWN was pressed once more *)
C4_Witness ==
    /\ lastOp = "DOWN"
    /\ pre.Kp = 0
    /\ Kp = 0

----------------------------------------------------------------------------
(* The run that spends a given time in one single frame, with no events *)

RECURSIVE DrainCount(_)
(* passes of the drain loop started with the accumulator at acc *)
DrainCount(acc) ==
    IF DrainGuard(acc)
    THEN 1 + (CHOOSE n \in {DrainCount(next) :
                              next \in {DoubleSub(acc, FIXED_TIMESTEP_D)}} : TRUE)
    ELSE 0

RECURSIVE DrainResidual(_)
(* the accumulator the drain loop started at acc exits with *)
DrainResidual(acc) ==
    IF DrainGuard(acc)
    THEN CHOOSE r \in {DrainResidual(next) :
                         next \in {DoubleSub(acc, FIXED_TIMESTEP_D)}} : TRUE
    ELSE acc

(* update_physics(FIXED_TIMESTEP) on the controller memory and the body, *)
(* with the initial gains and setpoint                                   *)
PhysicsStep(s) ==
    LET sp == (WINDOW_HEIGHT \div 2) * SCALE
        pv == MeasuredValue(s.y)
        f  == CalcOutput(KP_INIT * GSCALE, KI_INIT * GSCALE, KD_INIT * GSCALE,
                         s.integral, s.prev_error, sp, pv, FIXED_TIMESTEP)
    IN  [integral   |-> CalcIntegral(s.integral, sp, pv, FIXED_TIMESTEP),
         prev_error |-> sp - pv,
         y          |-> UpdateY(s.y, s.velocity, f, FIXED_TIMESTEP),
         velocity   |-> UpdateVelocity(s.y, s.velocity, f, FIXED_TIMESTEP)]

RECURSIVE StepsFromInit(_)
(* controller memory and body after n fixed steps from the initial state *)
StepsFromInit(n) ==
    IF n = 0
    THEN [integral |-> 0, prev_error |-> 0,
          y |-> (WINDOW_HEIGHT \div 2) * SCALE, velocity |-> 0]
    ELSE PhysicsStep(StepsFromInit(n - 1))

(* the accumulator with which a single frame of ms milliseconds, started *)
(* from the initial state, enters its drain loop                         *)
SingleFrameAcc(t) == DoubleAdd(BigZero, FrameTime(t, Ticks(0)))

(* C5: with no input events, a run whose frame deltas sum to a total has, *)
(* when its last frame has drained, executed as many fixed steps and      *)
(* reached the same body state, controller memory and accumulator         *)
(* residual as the run that spends the same total in one single frame.    *)
C5_SameTotalSameState ==
    (noInput /\ pc = "render") =>
        /\ calcs = DrainCount(SingleFrameAcc(last_time))
        /\ updates = DrainCount(SingleFrameAcc(last_time))
        /\ accumulator = DrainResidual(SingleFrameAcc(last_time))
        /\ [integral |-> integral, prev_error |-> prev_error,
            y |-> y, velocity |-> velocity]
             = StepsFromInit(DrainCount(SingleFrameAcc(last_time)))


(* C6: within a frame every event is applied before the frame's first     *)
(* fixed step, none between two steps, and the steps run one after        *)
(* another, each calculate on the body as the previous update left it.    *)
EventOps == {"quit", "mouse", "ignored"} \cup Keys

C6_EventsBeforeSteps ==
    /\ lastOp \in EventOps => (pc = "events" /\ frameSteps = 0)
    /\ pc = "update" => (lastOp = "calculate" /\ calcs = updates + 1)
    /\ pc # "update" => calcs = updates
    /\ lastOp = "calculate" =>
          (pre.y = y /\ prev_error = setpoint - MeasuredValue(y))

(* a first frame that handled an event and then ran two or more steps *)
C6_Witness ==
    /\ pc = "render"
    /\ frames = 1
    /\ nEvents >= 1
    /\ frameSteps >= 2

(* C7: the number of fixed steps of one frame is capped whatever the      *)
(* frame delta: it stays below the number of steps that the largest frame *)
(* delta asks for on its own.                                             *)
LargestDelta == CHOOSE d \in FrameDeltas : \A e \in FrameDeltas : e <= d

C7_StepsPerFrameCapped ==
    frameSteps < DrainCount(SingleFrameAcc(Ticks(LargestDelta)))

(* C8, as claimed: right after a pointer press at Y, setpoint = Y and     *)
(* integral = 0.                                                          *)
C8_ClickZeroesIntegral ==
    lastOp = "mouse" => (setpoint = lastArg * SCALE /\ integral = 0)

(* C8, amended: right after a pointer press at Y, setpoint = Y and the    *)
(* controller's integral and prev_error are what they were before.        *)
C8_ClickKeepsIntegral ==
    lastOp = "mouse" =>
        /\ setpoint = lastArg * SCALE
        /\ integral = pre.integral
        /\ prev_error = pre.prev_error

(* a press that moved the setpoint while the integral was not zero *)
C8_Witness ==
    /\ lastOp = "mouse"
    /\ setpoint # pre.setpoint
    /\ pre.integral # 0
    /\ integral # 0

(* C9: the R key (PID_Controller::reset) sets integral and prev_error to  *)
(* 0 and leaves gains, setpoint, body and accumulator as they were; a     *)
(* second reset right after the first changes nothing.                    *)
C9_ResetFrame ==
    /\ [](lastOp = "r" =>
            /\ integral = 0 /\ prev_error = 0
            /\ Kp = pre.Kp /\ Ki = pre.Ki /\ Kd = pre.Kd
            /\ setpoint = pre.setpoint
            /\ y = pre.y /\ velocity = pre.velocity
            /\ accumulator = pre.accumulator)
    /\ [][(lastOp = "r" /\ lastOp' = "r") =>
            UNCHANGED <<pidVars, ballVars, setpoint, accumulator, force>>]_vars

(* a reset that found both integral and prev_error non-zero *)
C9_Witness ==
    /\ lastOp = "r"
    /\ pre.integral # 0
    /\ pre.prev_error # 0
    /\ integral = 0
    /\ prev_error = 0

(* C10: once SDL_QUIT is handled no further frame starts; the frame runs  *)
(* on through the remaining events, the drain loop and render, then run   *)
(* returns; no fixed step stops between its calculate and its update.     *)
C10_QuitEndsAfterFrame ==
    /\ (quitFrame # 0) = (~running)
    /\ quitFrame # 0 => frames = quitFrame
    /\ pc = "done" => (/\ ~running
                       /\ rendered = frames
                       /\ BigLT(accumulator, FIXED_TIMESTEP_D))
    /\ pc # "update" => calcs = updates

(* run returned from a frame in which an event was handled after SDL_QUIT *)
(* and at least one fixed step ran                                        *)
C10_Witness ==
    /\ pc = "done"
    /\ afterQuit >= 1
    /\ frameSteps >= 1
    /\ rendered = frames

(* C11: a calculate or update call with dt <= 0 is rejected or skipped:   *)
(* it divides nothing by dt (the value it returns is finite) and leaves   *)
(* integral, prev_error, position and velocity as they were.              *)
C11_DegenerateDtSkipped ==
    (lastOp \in {"calculate", "update"} /\ lastArg[1] <= 0) =>
        /\ integral = pre.integral
        /\ prev_error = pre.prev_error
        /\ y = pre.y
        /\ velocity = pre.velocity
        /\ force # NonFinite

(* C12: the first calculate call after reset(), with error E and dt = D,  *)
(* returns Kp*E + 0 + Kd*(E - 0)/D: the integral term contributes 0.      *)
C12_FirstOutputNoIntegralTerm ==
    (lastOp = "calculate" /\ pre.integral = 0 /\ pre.prev_error = 0) =>
        force = GainMul(Kp, prev_error) + 0
                + GainMul(Kd, DivDt(prev_error - 0, lastArg))

(* C12: the first calculate call after reset(), with error E and dt = D,  *)
(* returns Kp*E + Ki*clamp(E*D, -1000, 1000) + Kd*(E - 0)/D: the          *)
(* integral restarts from 0 and holds this call's E*D, the derivative is  *)
(* taken against a zero previous error.                                   *)
C12_FirstOutputAfterReset ==
    (lastOp = "calculate" /\ pre.integral = 0 /\ pre.prev_error = 0) =>
        /\ integral = Clamp(MulDt(prev_error, lastArg),
                            -INTEGRAL_LIMIT * SCALE, INTEGRAL_LIMIT * SCALE)
        /\ force = GainMul(Kp, prev_error)
                   + GainMul(Ki, Clamp(MulDt(prev_error, lastArg),
                                       -INTEGRAL_LIMIT * SCALE,
                                       INTEGRAL_LIMIT * SCALE))
                   + GainMul(Kd, DivDt(prev_error - 0, lastArg))

(* a second calculate call that found the memory zeroed by a reset in     *)
(* between, with Ki > 0 and an integral term that is not 0                *)
C12_Witness ==
    /\ lastOp = "calculate"
    /\ calcs = 2
    /\ pre.integral = 0
    /\ pre.prev_error = 0
    /\ Ki > 0
    /\ GainMul(Ki, integral) # 0

(* C13: a body at position 0 with velocity -5, updated once with a        *)
(* downward net force (force < GRAVITY) whose raw new position is below   *)
(* 0, ends with position 0 and velocity 1.5, whatever the force.          *)
C13_BounceFromOldVelocity ==
    (/\ lastOp = "update"
     /\ pre.y = 0
     /\ pre.velocity = -5 * SCALE
     /\ force < GRAVITY * SCALE
     /\ EulerY(pre.y, pre.velocity, force, lastArg) < 0) =>
        (y = 0 /\ velocity = Bounce(pre.velocity))

(* C13: a body at position 0 with velocity -5, updated once with a        *)
(* downward net force (force < GRAVITY) whose raw new position is below   *)
(* 0, ends with position 0 and velocity -0.3 * (-5 + (force - GRAVITY) *  *)
(* dt): the velocity after the force was applied, times -0.3. That is     *)
(* more than 1.5.                                                         *)
C13_BounceFromNewVelocity ==
    (/\ lastOp = "update"
     /\ pre.y = 0
     /\ pre.velocity = -5 * SCALE
     /\ force < GRAVITY * SCALE
     /\ EulerY(pre.y, pre.velocity, force, lastArg) < 0) =>
        /\ y = 0
        /\ velocity = Bounce(pre.velocity
                             + MulDt(force - GRAVITY * SCALE, lastArg))
        /\ velocity > Bounce(pre.velocity)

(* the first update of the body at 0 with velocity -5 under a force below *)
(* GRAVITY: back on the boundary, faster than 1.5                         *)
C13_Witness ==
    /\ lastOp = "update"
    /\ updates = 1
    /\ pre.y = 0
    /\ pre.velocity = -5 * SCALE
    /\ force < GRAVITY * SCALE
    /\ y = 0
    /\ velocity > 150

(* the keys that handle_keypress maps to a gain *)
KpKeys == {"UP", "DOWN"}
KiKeys == {"LEFT", "RIGHT"}
KdKeys == {"PAGEUP", "PAGEDOWN"}

(* C14: Kp, Ki and Kd change only when a gain key is handled, and each    *)
(* key changes its own gain only; a fixed step, a pointer press, a reset, *)
(* a render and every other step leave the gains alone; a fixed step      *)
(* leaves the setpoint alone.                                             *)
C14_GainsChangeOnlyOnKeys ==
    /\ lastOp \notin KpKeys => Kp = pre.Kp
    /\ lastOp \notin KiKeys => Ki = pre.Ki
    /\ lastOp \notin KdKeys => Kd = pre.Kd
    /\ lastOp \in {"calculate", "update"} => setpoint = pre.setpoint

(* a RIGHT key handled after fixed steps have run: Ki is one step up, Kp  *)
(* and Kd are as before                                                   *)
C14_Witness ==
    /\ lastOp = "RIGHT"
    /\ updates > 0
    /\ Ki = pre.Ki + 1
    /\ Kp = pre.Kp
    /\ Kd = pre.Kd

(* C15: every fixed step calls calculate once and then update once, both  *)
(* with dt = FIXED_TIMESTEP; calculate is given the body position as it   *)
(* is before the update, update is given the force calculate returned;    *)
(* the step takes exactly FIXED_TIMESTEP off the accumulator; no step     *)
(* starts while the accumulator is below FIXED_TIMESTEP.                  *)
C15_FixedStepExact ==
    /\ lastOp = "calculate" =>
          /\ calcs = updates + 1
          /\ pc = "update"
          /\ lastArg = FIXED_TIMESTEP
          /\ BigGE(accumulator, FIXED_TIMESTEP_D)
          /\ force = CalcOutput(Kp, Ki, Kd, pre.integral, pre.prev_error,
                                setpoint, MeasuredValue(pre.y), lastArg)
          /\ y = pre.y
    /\ lastOp = "update" =>
          /\ calcs = updates
          /\ lastArg = FIXED_TIMESTEP
          /\ y = UpdateY(pre.y, pre.velocity, force, lastArg)
          /\ velocity = UpdateVelocity(pre.y, pre.velocity, force, lastArg)
          /\ BigGE(pre.accumulator, FIXED_TIMESTEP_D)
          /\ BigAdd(accumulator, FIXED_TIMESTEP_D) = pre.accumulator
    /\ lastOp \notin {"calculate", "update"} => calcs = updates

(* C16: the boundary reflects on both sides alike: a raw position below 0 *)
(* becomes 0 and the velocity is multiplied by -0.3; a raw position above *)
(* WINDOW_HEIGHT - BALL_SIZE becomes WINDOW_HEIGHT - BALL_SIZE and the    *)
(* velocity is multiplied by -0.3; a raw position within the bounds, the  *)
(* bounds included, is kept and so is the velocity.                       *)
C16_ReflectiveBoundary ==
    lastOp = "update" =>
        LET ry == EulerY(pre.y, pre.velocity, force, lastArg)
            v1 == EulerVelocity(pre.velocity, force, lastArg)
        IN  /\ ry < 0 => (y = 0 /\ velocity = RoundDiv(-3 * v1, 10))
            /\ ry > Y_MAX => (y = Y_MAX /\ velocity = RoundDiv(-3 * v1, 10))
            /\ (0 <= ry /\ ry <= Y_MAX) => (y = ry /\ velocity = v1)

(* an update that took the body, inside the bounds before, below 0: it is *)
(* at 0 and moves back in                                                 *)
C16_Witness ==
    /\ lastOp = "update"
    /\ pre.y > 0
    /\ EulerY(pre.y, pre.velocity, force, lastArg) < 0
    /\ y = 0
    /\ velocity > 0

(* C17: whenever an update clamps the position to a boundary, the         *)
(* velocity afterwards points into the domain or is zero: not negative    *)
(* after a clamp at 0, not positive after a clamp at WINDOW_HEIGHT -      *)
(* BALL_SIZE.                                                             *)
C17_VelocityPointsInward ==
    lastOp = "update" =>
        /\ EulerY(pre.y, pre.velocity, force, lastArg) < 0 => velocity >= 0
        /\ EulerY(pre.y, pre.velocity, force, lastArg) > Y_MAX => velocity <= 0

(* an update that ran past WINDOW_HEIGHT - BALL_SIZE with a positive      *)
(* velocity and left the body there with a negative one                   *)
C17_Witness ==
    /\ lastOp = "update"
    /\ EulerY(pre.y, pre.velocity, force, lastArg) > Y_MAX
    /\ EulerVelocity(pre.velocity, force, lastArg) > 0
    /\ y = Y_MAX
    /\ velocity < 0

(* floor(v / FIXED_TIMESTEP) for a time v >= 0, in exact arithmetic on    *)
(* the two doubles                                                        *)
RECURSIVE FloorSteps(_)
FloorSteps(v) ==
    IF BigGE(v, FIXED_TIMESTEP_D)
    THEN 1 + FloorSteps(BigSub(v, FIXED_TIMESTEP_D))
    ELSE 0

(* C18: for every frame delta the drain loop ends after exactly           *)
(* floor((residual + delta) / FIXED_TIMESTEP) fixed steps, residual being *)
(* the accumulator the frame began with, and render is reached then.      *)
C18_StepsAreFloor ==
    /\ lastOp = "drained" =>
          /\ pc = "render"
          /\ frameSteps = FloorSteps(BigAdd(frameEntry[1],
                                            FrameTime(Ticks(frameEntry[2]),
                                                      Ticks(0))))
    /\ lastOp = "render" => rendered = frames

(* C19: the frame delta, the Uint32 difference current_time - last_time,  *)
(* is never negative and equals the milliseconds that have elapsed        *)
(* (modulo 2^32), also in the frame in which the tick counter wraps; so   *)
(* adding the frame time never takes the accumulator below what it was.   *)
C19_DeltaIsElapsed ==
    lastOp = "frame" =>
          /\ frameEntry[2] >= 0
          /\ frameEntry[2] = lastArg
          /\ accumulator = DoubleAdd(pre.accumulator,
                                     DoubleDiv(lastArg, 1000))
          /\ BigGE(accumulator, pre.accumulator)

(* a frame in which the tick counter wrapped: the new tick count is       *)
(* smaller than the milliseconds that elapsed, which the delta equals     *)
C19_Witness ==
    /\ lastOp = "frame"
    /\ last_time[1] = 0
    /\ last_time[2] < lastArg
    /\ frameEntry[2] = lastArg

=============================================================================
